---- MODULE Spec2Model ----
(***************************************************************************)
(* Model of the mileage reimbursement calculator (src/main.py): the date   *)
(* miner, the receipt parser, the matcher and the Streamlit session that   *)
(* drives them.                                                            *)
(*                                                                         *)
(* Python values are represented as follows.                               *)
(*   datetime.date     a record [year, month, day]                         *)
(*   list              a sequence                                          *)
(*   dict              a function (client_address_mapping) or a record     *)
(*   None / missing    the empty sequence <<>>; a present value v is <<v>> *)
(*   str               a TLA+ string where only equality matters, a        *)
(*                     sequence of one-character strings where the code    *)
(*                     looks inside the string                             *)
(***************************************************************************)
EXTENDS Integers, Sequences, FiniteSets, TLC

VARIABLES
    \* match_dates_to_clients: its three arguments and its return value
    receipt_dates, time_report_data, client_address_mapping, matches,
    \* parse_dates_from_text: its argument and its outcome
    date_text, date_result,
    \* parse_parking_receipts: its argument and its outcome
    receipt_text, receipt_result,
    \* parse_time_report: its argument and its outcome
    report_text, report_result,
    \* the session: st.session_state, the files held by the two uploaders, and
    \* the per-file messages of the last run
    session_state, uploaded_receipts, uploaded_time_report, messages,
    \* the number of interactions of the session so far
    interactions

match_vars == <<receipt_dates, time_report_data, client_address_mapping, matches>>
date_vars == <<date_text, date_result>>
parking_vars == <<receipt_text, receipt_result>>
report_vars == <<report_text, report_result>>
session_vars ==
    <<session_state, uploaded_receipts, uploaded_time_report, messages, interactions>>
vars == <<match_vars, date_vars, parking_vars, report_vars, session_vars>>

----------------------------------------------------------------------------
(* Generic helpers *)

None == <<>>
Some(v) == <<v>>

Range(s) == {s[i] : i \in DOMAIN s}

Abs(n) == IF n < 0 THEN -n ELSE n

Min(a, b) == IF a < b THEN a ELSE b

\* s[:n]
Take(s, n) == SubSeq(s, 1, Min(n, Len(s)))

\* all sequences without repetition over S, of length at most n
RECURSIVE DistinctSeqs(_, _)
DistinctSeqs(S, n) ==
    IF n = 0 \/ S = {} THEN {<<>>}
    ELSE {<<>>} \cup UNION {{<<x>> \o t : t \in DistinctSeqs(S \ {x}, n - 1)} : x \in S}

----------------------------------------------------------------------------
(* datetime.date *)

IsLeap(y) == y % 4 = 0 /\ (y % 100 # 0 \/ y % 400 = 0)

DaysInMonth(y, m) ==
    IF m = 2 THEN (IF IsLeap(y) THEN 29 ELSE 28)
    ELSE IF m \in {4, 6, 9, 11} THEN 30 ELSE 31

MINYEAR == 1
MAXYEAR == 9999

\* datetime(year, month, day) succeeds; otherwise it raises ValueError
DateOk(y, m, d) ==
    /\ y >= MINYEAR /\ y <= MAXYEAR
    /\ m >= 1 /\ m <= 12
    /\ d >= 1 /\ d <= DaysInMonth(y, m)

MkDate(y, m, d) == [year |-> y, month |-> m, day |-> d]

RECURSIVE DaysBeforeMonth(_, _)
DaysBeforeMonth(y, m) ==
    IF m <= 1 THEN 0 ELSE DaysInMonth(y, m - 1) + DaysBeforeMonth(y, m - 1)

DaysBeforeYear(y) ==
    (y - 1) * 365 + ((y - 1) \div 4) - ((y - 1) \div 100) + ((y - 1) \div 400)

\* date.toordinal(): date subtraction and date ordering go through it
Ordinal(dt) == DaysBeforeYear(dt.year) + DaysBeforeMonth(dt.year, dt.month) + dt.day

\* (a - b).days
DaysBetween(a, b) == Ordinal(a) - Ordinal(b)

\* sorted(list(set(dates)))
RECURSIVE SortedDates(_)
SortedDates(S) ==
    IF S = {} THEN <<>>
    ELSE LET first == CHOOSE x \in S : \A y \in S : Ordinal(x) <= Ordinal(y)
         IN <<first>> \o SortedDates(S \ {first})

NextDay(dt) ==
    IF dt.day < DaysInMonth(dt.year, dt.month) THEN MkDate(dt.year, dt.month, dt.day + 1)
    ELSE IF dt.month < 12 THEN MkDate(dt.year, dt.month + 1, 1)
    ELSE MkDate(dt.year + 1, 1, 1)

RECURSIVE DayAfter(_, _)
DayAfter(dt, n) == IF n = 0 THEN dt ELSE NextDay(DayAfter(dt, n - 1))

----------------------------------------------------------------------------
(* Strings the code looks into: sequences of one-character strings *)

Digits == {"0", "1", "2", "3", "4", "5", "6", "7", "8", "9"}

\* int(c) of one digit
DigitVal(c) ==
    CASE c = "0" -> 0 [] c = "1" -> 1 [] c = "2" -> 2 [] c = "3" -> 3 [] c = "4" -> 4
      [] c = "5" -> 5 [] c = "6" -> 6 [] c = "7" -> 7 [] c = "8" -> 8 [] c = "9" -> 9

\* str.isdigit()
IsDigitStr(s) == s # <<>> /\ \A i \in DOMAIN s : s[i] \in Digits

\* int(s) of a string of digits
RECURSIVE ToInt(_)
ToInt(s) ==
    IF s = <<>> THEN 0
    ELSE 10 * ToInt(SubSeq(s, 1, Len(s) - 1)) + DigitVal(s[Len(s)])

UpperLetters == <<"A", "B", "C", "D", "E", "F", "G", "H", "I", "J", "K", "L", "M",
                  "N", "O", "P", "Q", "R", "S", "T", "U", "V", "W", "X", "Y", "Z">>
LowerLetters == <<"a", "b", "c", "d", "e", "f", "g", "h", "i", "j", "k", "l", "m",
                  "n", "o", "p", "q", "r", "s", "t", "u", "v", "w", "x", "y", "z">>

\* str.lower() of one character
LowerChar(c) ==
    IF \E i \in DOMAIN UpperLetters : UpperLetters[i] = c
    THEN LowerLetters[CHOOSE i \in DOMAIN UpperLetters : UpperLetters[i] = c]
    ELSE c

\* str.lower()
Lower(s) == [i \in DOMAIN s |-> LowerChar(s[i])]

----------------------------------------------------------------------------
(* parse_dates_from_text *)

\* The text is represented by the matches re.finditer finds in it: each is the
\* index of the pattern of date_patterns (1..4) and its three groups, in text
\* order.  Pattern 1 is N sep N sep NNNN, pattern 2 NNNN sep N sep N, pattern 3
\* N Month NNNN, pattern 4 Month N, NNNN; the month group is the three letters
\* the alternation (Jan|Feb|...) captured, in the text's own case.

month_names ==
    << <<"j", "a", "n">>, <<"f", "e", "b">>, <<"m", "a", "r">>, <<"a", "p", "r">>,
       <<"m", "a", "y">>, <<"j", "u", "n">>, <<"j", "u", "l">>, <<"a", "u", "g">>,
       <<"s", "e", "p">>, <<"o", "c", "t">>, <<"n", "o", "v">>, <<"d", "e", "c">> >>

\* key in month_names
InMonthNames(key) == \E m \in DOMAIN month_names : month_names[m] = key

\* month_names[key]
MonthNumber(key) == CHOOSE m \in DOMAIN month_names : month_names[m] = key

\* the outcome of an expression: a value, or an exception of the named class
Returns(v) == [exc |-> "none", val |-> <<v>>]
Raises(e) == [exc |-> e, val |-> <<>>]

\* strptime's regular expression of %m: 1[0-2]|0[1-9]|[1-9]
MatchesPctM(s) ==
    \/ Len(s) = 2 /\ s[1] = "1" /\ s[2] \in {"0", "1", "2"}
    \/ Len(s) = 2 /\ s[1] = "0" /\ s[2] \in Digits \ {"0"}
    \/ Len(s) = 1 /\ s[1] \in Digits \ {"0"}

\* strptime's regular expression of %d on digits: 3[0-1]|[1-2]\d|0[1-9]|[1-9]
MatchesPctD(s) ==
    \/ Len(s) = 2 /\ s[1] = "3" /\ s[2] \in {"0", "1"}
    \/ Len(s) = 2 /\ s[1] \in {"1", "2"} /\ s[2] \in Digits
    \/ Len(s) = 2 /\ s[1] = "0" /\ s[2] \in Digits \ {"0"}
    \/ Len(s) = 1 /\ s[1] \in Digits \ {"0"}

\* strptime's regular expression of %Y: \d\d\d\d
MatchesPctY(s) == Len(s) = 4 /\ IsDigitStr(s)

\* datetime(year, month, day)
Datetime(y, m, d) == IF DateOk(y, m, d) THEN Returns(MkDate(y, m, d)) ELSE Raises("ValueError")

\* the bug of checking the day against 31 instead of the month's length
Strptime_AnyMonthLength(ys, ms, ds) ==
    IF MatchesPctY(ys) /\ MatchesPctM(ms) /\ MatchesPctD(ds) /\ ToInt(ys) >= MINYEAR
    THEN Returns(MkDate(ToInt(ys), ToInt(ms), ToInt(ds)))
    ELSE Raises("ValueError")

\* datetime.strptime of the three fields joined by a fixed separator, under
\* "%m/%d/%Y" or "%Y-%m-%d": the fields are digits, so the format matches
\* exactly when each field matches its directive
Strptime(ys, ms, ds) ==
    IF MatchesPctY(ys) /\ MatchesPctM(ms) /\ MatchesPctD(ds)
    THEN Datetime(ToInt(ys), ToInt(ms), ToInt(ds))
    ELSE Raises("ValueError")

\* the body of the try block for one match: the date appended, or nothing
\* appended (the sequence is empty), or an exception
DateOfMatch(c) ==
    LET groups == c.groups
    IN IF IsDigitStr(groups[1]) /\ IsDigitStr(groups[2]) /\ IsDigitStr(groups[3])
       THEN IF Len(groups[1]) = 4
            THEN Strptime(groups[1], groups[2], groups[3])
            ELSE Strptime(groups[3], groups[1], groups[2])
       ELSE IF InMonthNames(Take(Lower(groups[2]), 3))
            THEN Datetime(ToInt(groups[3]), MonthNumber(Take(Lower(groups[2]), 3)),
                          ToInt(groups[1]))
            ELSE IF InMonthNames(Take(Lower(groups[1]), 3))
                 THEN Datetime(ToInt(groups[3]), MonthNumber(Take(Lower(groups[1]), 3)),
                               ToInt(groups[2]))
                 ELSE [exc |-> "none", val |-> <<>>]

\* for match in matches, for one pattern: the list dates after the loop, or the
\* exception that left it (except ValueError: continue)
RECURSIVE ScanMatches(_, _)
ScanMatches(ms, dates) ==
    IF ms = <<>> THEN Returns(dates)
    ELSE LET r == DateOfMatch(Head(ms))
         IN IF r.exc = "ValueError" THEN ScanMatches(Tail(ms), dates)
            ELSE IF r.exc # "none" THEN Raises(r.exc)
            ELSE ScanMatches(Tail(ms), dates \o r.val)

\* for pattern in date_patterns
RECURSIVE ScanPatterns(_, _, _)
ScanPatterns(text, p, dates) ==
    IF p > 4 THEN Returns(dates)
    ELSE LET r == ScanMatches(SelectSeq(text, LAMBDA c : c.pattern = p), dates)
         IN IF r.exc # "none" THEN r ELSE ScanPatterns(text, p + 1, r.val[1])

\* every list that list(set(S)) can be
ListsOfSet(S) == {s \in DistinctSeqs(S, Cardinality(S)) : Len(s) = Cardinality(S)}

\* the bug of returning the list with its duplicates
parse_dates_NoSet(text) ==
    LET r == ScanPatterns(text, 1, <<>>)
    IN IF r.exc # "none" THEN {r} ELSE {Returns(r.val[1])}

\* the outcomes parse_dates_from_text(text) can have: the order of list(set())
\* is not determined by the code
parse_dates_from_text(text) ==
    LET r == ScanPatterns(text, 1, <<>>)
    IN IF r.exc # "none" THEN {r}
       ELSE {Returns(l) : l \in ListsOfSet(Range(r.val[1]))}

----------------------------------------------------------------------------
(* parse_parking_receipts *)

\* A document's text is represented by what the code takes from it: the date
\* matches re.finditer finds in it (matches) and the lines text.split('\n')
\* gives (lines), each line a sequence of characters.

location_keywords ==
    << <<"l", "o", "t">>, <<"g", "a", "r", "a", "g", "e">>,
       <<"p", "a", "r", "k", "i", "n", "g">>, <<"m", "e", "t", "e", "r">>,
       <<"s", "t", "r", "e", "e", "t">>, <<"a", "v", "e">>,
       <<"a", "v", "e", "n", "u", "e">>, <<"b", "l", "v", "d">>,
       <<"b", "o", "u", "l", "e", "v", "a", "r", "d">>, <<"r", "d">>,
       <<"r", "o", "a", "d">> >>

\* keyword in line
Contains(line, keyword) ==
    \E i \in 1..(Len(line) - Len(keyword) + 1) :
        SubSeq(line, i, i + Len(keyword) - 1) = keyword

IsSpace(c) == c \in {" ", "\t", "\r"}

\* what \w matches
IsWordChar(c) ==
    \/ c \in Digits
    \/ c = "_"
    \/ \E i \in DOMAIN LowerLetters : LowerLetters[i] = c \/ UpperLetters[i] = c

\* str.strip()
RECURSIVE LStrip(_)
LStrip(s) == IF s # <<>> /\ IsSpace(Head(s)) THEN LStrip(Tail(s)) ELSE s

RECURSIVE RStrip(_)
RStrip(s) ==
    IF s # <<>> /\ IsSpace(s[Len(s)]) THEN RStrip(SubSeq(s, 1, Len(s) - 1)) ELSE s

Strip(s) == RStrip(LStrip(s))

\* any(keyword in line_lower for keyword in location_keywords)
HasKeyword(line) ==
    LET line_lower == Strip(Lower(line))
    IN \E k \in DOMAIN location_keywords : Contains(line_lower, location_keywords[k])

\* re.sub(r'[^\w\s\-\.]', ' ', line).strip()
CleanLine(line) ==
    Strip([i \in DOMAIN line |->
              IF IsWordChar(line[i]) \/ IsSpace(line[i]) \/ line[i] \in {"-", "."}
              THEN line[i] ELSE " "])

\* the bug of keeping the last lines instead of the first
LocationsSlice_Last(locations, cap) ==
    SubSeq(locations, Len(locations) - Min(cap, Len(locations)) + 1, Len(locations))

\* locations[:10], amounts[:10]
LocationsSlice(locations, cap) == Take(locations, cap)

MinLocationLen == 3
LocationCap == 10
AmountCap == 10

\* for line in lines: the list locations after the loop
RECURSIVE ScanLocations(_)
ScanLocations(lines) ==
    IF lines = <<>> THEN <<>>
    ELSE LET line == Head(lines)
             cleaned_line == CleanLine(line)
         IN (IF HasKeyword(line) /\ Len(cleaned_line) > MinLocationLen
             THEN <<cleaned_line>> ELSE <<>>)
            \o ScanLocations(Tail(lines))

\* the end of the run of digits of s that starts at position i
RECURSIVE DigitsEnd(_, _)
DigitsEnd(s, i) == IF i <= Len(s) /\ s[i] \in Digits THEN DigitsEnd(s, i + 1) ELSE i

\* re.findall(r'\$?(\d+\.?\d*)', line) from position i on: the captured groups
RECURSIVE FindAmounts(_, _)
FindAmounts(s, i) ==
    IF i > Len(s) THEN <<>>
    ELSE LET start == IF s[i] = "$" /\ i < Len(s) /\ s[i + 1] \in Digits THEN i + 1 ELSE i
         IN IF s[start] \notin Digits THEN FindAmounts(s, i + 1)
            ELSE LET e1 == DigitsEnd(s, start)
                     e2 == IF e1 <= Len(s) /\ s[e1] = "." THEN DigitsEnd(s, e1 + 1) ELSE e1
                 IN <<SubSeq(s, start, e2 - 1)>> \o FindAmounts(s, e2)

RECURSIVE StripZeros(_)
StripZeros(s) ==
    IF s # <<>> /\ s[Len(s)] = "0" THEN StripZeros(SubSeq(s, 1, Len(s) - 1)) ELSE s

\* float(amount) of digits, an optional point and digits: the whole part and
\* the digits of the fraction (exact; binary rounding is not represented)
Float(amount) ==
    LET e == DigitsEnd(amount, 1)
    IN [whole |-> ToInt(SubSeq(amount, 1, e - 1)),
        frac |-> StripZeros(SubSeq(amount, e + 1, Len(amount)))]

\* the amounts of the whole text: no match of the pattern spans a line break
RECURSIVE ScanAmounts(_)
ScanAmounts(lines) ==
    IF lines = <<>> THEN <<>>
    ELSE LET found == FindAmounts(Head(lines), 1)
         IN [i \in DOMAIN found |-> Float(found[i])] \o ScanAmounts(Tail(lines))

\* the outcomes parse_parking_receipts(text) can have
parse_parking_receipts(text) ==
    {IF d.exc # "none" THEN d
     ELSE Returns([dates |-> d.val[1],
                   locations |-> LocationsSlice(ScanLocations(text.lines), LocationCap),
                   amounts |-> LocationsSlice(ScanAmounts(text.lines), AmountCap)])
       : d \in parse_dates_from_text(text.matches)}

----------------------------------------------------------------------------
(* parse_time_report *)

exclude_words ==
    {<<"t", "o", "t", "a", "l">>, <<"h", "o", "u", "r", "s">>,
     <<"t", "i", "m", "e">>, <<"d", "a", "t", "e">>,
     <<"p", "r", "o", "j", "e", "c", "t">>, <<"t", "a", "s", "k">>,
     <<"w", "o", "r", "k">>, <<"r", "e", "p", "o", "r", "t">>,
     <<"s", "u", "m", "m", "a", "r", "y">>, <<"b", "i", "l", "l", "i", "n", "g">>,
     <<"i", "n", "v", "o", "i", "c", "e">>, <<"a", "m", "o", "u", "n", "t">>,
     <<"c", "o", "s", "t">>, <<"r", "a", "t", "e">>, <<"p", "a", "g", "e">>,
     <<"d", "e", "s", "c", "r", "i", "p", "t", "i", "o", "n">>,
     <<"n", "o", "t", "e", "s">>, <<"c", "l", "i", "e", "n", "t">>,
     <<"c", "o", "m", "p", "a", "n", "y">>, <<"c", "o", "n", "t", "a", "c", "t">>,
     <<"p", "h", "o", "n", "e">>, <<"e", "m", "a", "i", "l">>,
     <<"a", "d", "d", "r", "e", "s", "s">>, <<"c", "i", "t", "y">>,
     <<"s", "t", "a", "t", "e">>, <<"z", "i", "p">>,
     <<"c", "o", "u", "n", "t", "r", "y">>}

\* line.split(): the maximal runs of characters that are not whitespace
RECURSIVE Split(_)
Split(s) ==
    LET t == LStrip(s)
    IN IF t = <<>> THEN <<>>
       ELSE LET n == CHOOSE k \in 1..Len(t) :
                        /\ \A i \in 1..k : ~IsSpace(t[i])
                        /\ (k = Len(t) \/ IsSpace(t[k + 1]))
            IN <<SubSeq(t, 1, n)>> \o Split(SubSeq(t, n + 1, Len(t)))

IsUpperChar(c) == \E i \in DOMAIN UpperLetters : UpperLetters[i] = c
IsLowerChar(c) == \E i \in DOMAIN LowerLetters : LowerLetters[i] = c

\* str.isupper(): a cased character, and no lower-case one
IsUpper(w) ==
    /\ \E i \in DOMAIN w : IsUpperChar(w[i])
    /\ \A i \in DOMAIN w : ~IsLowerChar(w[i])

\* str.istitle(): an upper-case character only after an uncased one, a
\* lower-case character only after a cased one, and a cased character
IsTitle(w) ==
    /\ \E i \in DOMAIN w : IsUpperChar(w[i]) \/ IsLowerChar(w[i])
    /\ \A i \in DOMAIN w :
          LET prev_cased == i > 1 /\ (IsUpperChar(w[i - 1]) \/ IsLowerChar(w[i - 1]))
          IN /\ IsUpperChar(w[i]) => ~prev_cased
             /\ IsLowerChar(w[i]) => prev_cased

\* re.sub(r'[^\w]', '', word.lower())
CleanWord(word) == SelectSeq(Lower(word), IsWordChar)

Separators == {"/", ".", "-"}

\* re.match(r'^\d+[/.-]\d+[/.-]\d+', line)
StartsDateLike(line) ==
    LET e1 == DigitsEnd(line, 1)
        e2 == DigitsEnd(line, e1 + 1)
    IN /\ e1 > 1 /\ e1 <= Len(line) /\ line[e1] \in Separators
       /\ e2 > e1 + 1 /\ e2 <= Len(line) /\ line[e2] \in Separators
       /\ e2 < Len(line) /\ line[e2 + 1] \in Digits

\* re.search(r'\$\d+', line)
HasDollarAmount(line) ==
    \E i \in 1..(Len(line) - 1) : line[i] = "$" /\ line[i + 1] \in Digits

\* ' '.join(words)
RECURSIVE Join(_)
Join(words) ==
    IF words = <<>> THEN <<>>
    ELSE IF Len(words) = 1 THEN words[1]
    ELSE words[1] \o <<" ">> \o Join(Tail(words))

MinLineLen == 3
MinNameLen == 3
MaxNameLen == 50
ClientCap == 10

\* the words of a line kept for the candidate name
KeptWords(line) ==
    SelectSeq(Split(line),
              LAMBDA word : /\ Len(word) > 1
                            /\ (IsTitle(word) \/ IsUpper(word))
                            /\ CleanWord(word) \notin exclude_words
                            /\ ~IsDigitStr(word))

\* for line in lines: the list clients after the loop
RECURSIVE ScanClients(_, _)
ScanClients(lines, clients) ==
    IF lines = <<>> THEN clients
    ELSE LET line == Strip(Head(lines))
         IN IF \/ Len(line) < MinLineLen
               \/ IsDigitStr(line)
               \/ StartsDateLike(line)
               \/ HasDollarAmount(line)
            THEN ScanClients(Tail(lines), clients)
            ELSE LET potential_client == KeptWords(line)
                     client_name == Join(potential_client)
                 IN IF /\ Len(potential_client) >= 1
                       /\ MinNameLen <= Len(client_name)
                       /\ Len(client_name) <= MaxNameLen
                       /\ client_name \notin Range(clients)
                    THEN ScanClients(Tail(lines), Append(clients, client_name))
                    ELSE ScanClients(Tail(lines), clients)

\* the characters of the texts, in code point order
CodePoints ==
    <<"\t", "\r", " ", "#", "$", "(", ")", ",", "-", ".", "/",
      "0", "1", "2", "3", "4", "5", "6", "7", "8", "9", ":",
      "A", "B", "C", "D", "E", "F", "G", "H", "I", "J", "K", "L", "M",
      "N", "O", "P", "Q", "R", "S", "T", "U", "V", "W", "X", "Y", "Z", "_",
      "a", "b", "c", "d", "e", "f", "g", "h", "i", "j", "k", "l", "m",
      "n", "o", "p", "q", "r", "s", "t", "u", "v", "w", "x", "y", "z">>

\* ord(c), up to the order
Ord(c) == CHOOSE i \in DOMAIN CodePoints : CodePoints[i] = c

\* a < b on str
RECURSIVE StrLess(_, _)
StrLess(a, b) ==
    IF a = <<>> THEN b # <<>>
    ELSE IF b = <<>> THEN FALSE
    ELSE IF Head(a) = Head(b) THEN StrLess(Tail(a), Tail(b))
    ELSE Ord(Head(a)) < Ord(Head(b))

\* sorted(list(set(clients)))
RECURSIVE SortedStrings(_)
SortedStrings(S) ==
    IF S = {} THEN <<>>
    ELSE LET first == CHOOSE x \in S : \A y \in S \ {x} : StrLess(x, y)
         IN <<first>> \o SortedStrings(S \ {first})

\* the bug of capping the list before it is sorted
ClientsSlice_CapFirst(clients) == SortedStrings(Range(Take(clients, ClientCap)))

\* sorted(list(set(clients)))[:10]
ClientsSlice(clients) == Take(SortedStrings(Range(clients)), ClientCap)

\* the outcomes parse_time_report(text) can have
parse_time_report(text) ==
    {IF d.exc # "none" THEN d
     ELSE Returns([dates |-> d.val[1],
                   clients |-> ClientsSlice(ScanClients(text.lines, <<>>))])
       : d \in parse_dates_from_text(text.matches)}

----------------------------------------------------------------------------
(* match_dates_to_clients *)

\* f'±{date_diff} day(s)'
DayTag(date_diff) == "±" \o ToString(date_diff) \o " day(s)"

\* the bug of emitting a record for a client without an address
RECURSIVE ClientRecords_NoFilter(_, _, _, _)
ClientRecords_NoFilter(receipt_date, clients, mapping, match_type) ==
    IF clients = <<>> THEN <<>>
    ELSE LET client == Head(clients)
         IN <<[date |-> receipt_date, client |-> client,
               address |-> IF client \in DOMAIN mapping THEN mapping[client] ELSE "",
               match_type |-> match_type]>>
            \o ClientRecords_NoFilter(receipt_date, Tail(clients), mapping, match_type)

\* for client in time_report_data['clients']: if client in client_address_mapping: append
RECURSIVE ClientRecords(_, _, _, _)
ClientRecords(receipt_date, clients, mapping, match_type) ==
    IF clients = <<>> THEN <<>>
    ELSE LET client == Head(clients)
             rest == ClientRecords(receipt_date, Tail(clients), mapping, match_type)
         IN IF client \in DOMAIN mapping
            THEN <<[date |-> receipt_date, client |-> client,
                    address |-> mapping[client], match_type |-> match_type]>> \o rest
            ELSE rest

\* the bug of stopping after the first client
ExactPass_FirstOnly(receipt_date, trd, mapping) ==
    IF receipt_date \in Range(trd.dates)
    THEN Take(ClientRecords(receipt_date, trd.clients, mapping, "exact"), 1)
    ELSE <<>>

\* the exact pass of one receipt date
ExactPass(receipt_date, trd, mapping) ==
    IF receipt_date \in Range(trd.dates)
    THEN ClientRecords(receipt_date, trd.clients, mapping, "exact")
    ELSE <<>>

\* the bug of a two-day window
RECURSIVE TolerancePass_Wide(_, _, _, _)
TolerancePass_Wide(receipt_date, dates, clients, mapping) ==
    IF dates = <<>> THEN <<>>
    ELSE LET time_date == Head(dates)
             date_diff == Abs(DaysBetween(receipt_date, time_date))
         IN (IF date_diff <= 2
             THEN ClientRecords(receipt_date, clients, mapping, DayTag(date_diff))
             ELSE <<>>)
            \o TolerancePass_Wide(receipt_date, Tail(dates), clients, mapping)

\* the tolerance pass of one receipt date: for time_date in time_report_data['dates']
RECURSIVE TolerancePass(_, _, _, _)
TolerancePass(receipt_date, dates, clients, mapping) ==
    IF dates = <<>> THEN <<>>
    ELSE LET time_date == Head(dates)
             date_diff == Abs(DaysBetween(receipt_date, time_date))
         IN (IF date_diff <= 1
             THEN ClientRecords(receipt_date, clients, mapping, DayTag(date_diff))
             ELSE <<>>)
            \o TolerancePass(receipt_date, Tail(dates), clients, mapping)

\* the bug of running the tolerance pass after a successful exact pass
BestMatches_BothPasses(receipt_date, trd, mapping) ==
    ExactPass(receipt_date, trd, mapping)
    \o TolerancePass(receipt_date, trd.dates, trd.clients, mapping)

\* best_matches of one receipt date
BestMatches(receipt_date, trd, mapping) ==
    LET exact == ExactPass(receipt_date, trd, mapping)
    IN IF exact # <<>> THEN exact
       ELSE TolerancePass(receipt_date, trd.dates, trd.clients, mapping)

RECURSIVE match_dates_to_clients(_, _, _)
match_dates_to_clients(rdates, trd, mapping) ==
    IF rdates = <<>> THEN <<>>
    ELSE BestMatches(Head(rdates), trd, mapping)
         \o match_dates_to_clients(Tail(rdates), trd, mapping)

----------------------------------------------------------------------------
(* Inputs *)

MaxDay == 4
MaxReceipts == 2
MaxWork == 2
MaxExtra == 1
MaxLines == 30
MaxPeriod == 2
MaxDocs == 2
MaxSteps == 6
MaxReportLines == 13

BaseDate == MkDate(2024, 2, 27)

\* consecutive days across the end of February of a leap year
Dates == {DayAfter(BaseDate, n) : n \in 1..MaxDay}

Acme == <<"A", "c", "m", "e", " ", "I", "n", "c">>
Beta == <<"B", "e", "t", "a", " ", "L", "L", "C">>
Names == {Acme, Beta}
Main == <<"1", " ", "M", "a", "i", "n", " ", "S", "t">>
Oak == <<"2", " ", "O", "a", "k", " ", "A", "v", "e">>
Addresses == {Main, Oak}

\* st.session_state.receipt_data['dates'] is sorted(list(set(...)))
ReceiptDateLists ==
    {SortedDates(S) : S \in {T \in SUBSET Dates : Cardinality(T) <= MaxReceipts}}

\* the dates of a time report are list(set(...)): duplicate-free, in any order
WorkDateLists == DistinctSeqs(Dates, MaxWork)

\* the clients are the parsed names or the manual client names: duplicate-free
ClientLists == DistinctSeqs(Names, Cardinality(Names))

Mappings == UNION {[K -> Addresses] : K \in SUBSET Names}

\* what \d{1,2} captured, what \d{4} captured, what (Jan|Feb|...) captured
ShortTokens ==
    {<<"0">>, <<"0", "0">>, <<"1">>, <<"0", "2">>, <<"2">>, <<"3">>, <<"0", "3">>,
     <<"0", "4">>, <<"1", "2">>, <<"1", "3">>, <<"1", "5">>, <<"2", "9">>,
     <<"3", "0">>, <<"3", "1">>, <<"3", "2">>}
YearTokens ==
    {<<"0", "0", "0", "0">>, <<"1", "9", "0", "0">>, <<"2", "0", "0", "0">>,
     <<"2", "0", "2", "3">>, <<"2", "0", "2", "4">>}
MonthTokens ==
    {<<"F", "e", "b">>, <<"F", "E", "B">>, <<"m", "a", "r">>, <<"A", "p", "r">>,
     <<"D", "e", "c">>}

DateMatch(p, g1, g2, g3) == [pattern |-> p, groups |-> <<g1, g2, g3>>]

PrincipalMatches ==
    {DateMatch(1, a, b, y) : a \in ShortTokens, b \in ShortTokens, y \in YearTokens}
    \cup {DateMatch(2, y, a, b) : a \in ShortTokens, b \in ShortTokens, y \in YearTokens}
    \cup {DateMatch(3, d, m, y) : d \in ShortTokens, m \in MonthTokens, y \in YearTokens}
    \cup {DateMatch(4, m, d, y) : d \in ShortTokens, m \in MonthTokens, y \in YearTokens}

\* 03/15/2024, 02/30/2024, 2024-3-15, 15 March 2024
Companions ==
    {DateMatch(1, <<"0", "3">>, <<"1", "5">>, <<"2", "0", "2", "4">>),
     DateMatch(1, <<"0", "2">>, <<"3", "0">>, <<"2", "0", "2", "4">>),
     DateMatch(2, <<"2", "0", "2", "4">>, <<"3">>, <<"1", "5">>),
     DateMatch(3, <<"1", "5">>, <<"M", "a", "r">>, <<"2", "0", "2", "4">>)}

\* texts with one match of any shape followed by up to MaxExtra more
DateTexts ==
    {<<>>} \cup {<<c>> \o e : c \in PrincipalMatches,
                              e \in UNION {[1..n -> Companions] : n \in 0..MaxExtra}}

TwoDigits(i) == <<ToString((i \div 10) % 10), ToString(i % 10)>>

\* the i-th line of a generated text, of one of five kinds:
\*   1  "OAK AVE nn"   a keyword in upper case
\*   2  "Paid nn"      no keyword
\*   3  "(lot)"        a keyword, three characters once cleaned
\*   4  "Lot #nn"      a keyword and a character the cleaning replaces
\*   5  "rdnn"         a keyword, four characters once cleaned
GenLine(kind, i) ==
    CASE kind = 1 -> <<"O", "A", "K", " ", "A", "V", "E", " ">> \o TwoDigits(i)
      [] kind = 2 -> <<"P", "a", "i", "d", " ">> \o TwoDigits(i)
      [] kind = 3 -> <<"(", "l", "o", "t", ")">>
      [] kind = 4 -> <<"L", "o", "t", " ", "#">> \o TwoDigits(i)
      [] kind = 5 -> <<"r", "d">> \o TwoDigits(i)

LineKinds == 1..5

\* n lines whose kinds repeat the given pattern
GenLines(n, kinds) == [i \in 1..n |-> GenLine(kinds[((i - 1) % Len(kinds)) + 1], i)]

\* "Parked at Main Street Garage\nRandom line\n123 Oak Ave"
ExampleLines ==
    << <<"P", "a", "r", "k", "e", "d", " ", "a", "t", " ", "M", "a", "i", "n", " ",
         "S", "t", "r", "e", "e", "t", " ", "G", "a", "r", "a", "g", "e">>,
       <<"R", "a", "n", "d", "o", "m", " ", "l", "i", "n", "e">>,
       <<"1", "2", "3", " ", "O", "a", "k", " ", "A", "v", "e">> >>

ReceiptTexts ==
    {[matches |-> <<>>, lines |-> ExampleLines]}
    \cup {[matches |-> <<>>, lines |-> GenLines(n, k)] :
             n \in 0..MaxLines,
             k \in UNION {[1..p -> LineKinds] : p \in 1..MaxPeriod}}

\* a word of n characters: the letter, then n - 1 times "b"
LongWord(letter, n) == <<letter>> \o [k \in 1..(n - 1) |-> "b"]

\* the i-th line of a generated time report, of one of nine kinds:
\*   1  "Ztd", "Ytd", ...       a name that sorts earlier the later its line
\*   2  "Anc LLC", "Bnc LLC"    a name that sorts later the later its line
\*   3  "  Acme Inc "           the same name on every line
\*   4  "Total Hours: 40"       excluded words and a number only
\*   5  "Ab is"                 a candidate of two characters
\*   6  "Abbb...b"              a candidate of MaxNameLen + 1 characters
\*   7  "Zbbb...b", "Ybbb...b"  a candidate of MaxNameLen characters
\*   8  "03/15/2024 Acme"       a line that starts like a date
\*   9  "Beta $40"              a line with a dollar amount
ReportLine(kind, i) ==
    CASE kind = 1 -> <<UpperLetters[27 - i], "t", "d">>
      [] kind = 2 -> <<UpperLetters[i], "n", "c", " ", "L", "L", "C">>
      [] kind = 3 -> <<" ", " ", "A", "c", "m", "e", " ", "I", "n", "c", " ">>
      [] kind = 4 -> <<"T", "o", "t", "a", "l", " ", "H", "o", "u", "r", "s", ":", " ", "4", "0">>
      [] kind = 5 -> <<"A", "b", " ", "i", "s">>
      [] kind = 6 -> LongWord("A", MaxNameLen + 1)
      [] kind = 7 -> LongWord(UpperLetters[27 - i], MaxNameLen)
      [] kind = 8 -> <<"0", "3", "/", "1", "5", "/", "2", "0", "2", "4", " ", "A", "c", "m", "e">>
      [] kind = 9 -> <<"B", "e", "t", "a", " ", "$", "4", "0">>

ReportLineKinds == 1..9

\* n lines that alternate between two kinds
ReportLines(n, kinds) == [i \in 1..n |-> ReportLine(kinds[((i - 1) % 2) + 1], i)]

ReportTexts ==
    {[matches |-> d, lines |-> ReportLines(n, k)] :
        d \in {<<>>, <<DateMatch(1, <<"0", "3">>, <<"1", "5">>, <<"2", "0", "2", "4">>)>>},
        n \in 0..MaxReportLines,
        k \in ReportLineKinds \X ReportLineKinds}

----------------------------------------------------------------------------
(* extract_text_from_pdf and the uploaded documents *)

\* A PDF file is represented by what extract_text_from_pdf makes of it: the
\* text (its date matches and its lines), or None when both extraction methods
\* fail, or an exception that leaves the try block of the caller.

Date_03_15 == DateMatch(1, <<"0", "3">>, <<"1", "5">>, <<"2", "0", "2", "4">>)
Date_03_17 == DateMatch(1, <<"0", "3">>, <<"1", "7">>, <<"2", "0", "2", "4">>)
Date_02_30 == DateMatch(1, <<"0", "2">>, <<"3", "0">>, <<"2", "0", "2", "4">>)
Date_2024_03_16 == DateMatch(2, <<"2", "0", "2", "4">>, <<"0", "3">>, <<"1", "6">>)

Files ==
    [name \in {"r1.pdf", "r2.pdf", "t1.pdf", "t2.pdf", "scan.pdf", "broken.pdf"} |->
        CASE name = "r1.pdf" ->
               Returns(Some([matches |-> <<Date_03_15>>,
                             lines |-> << <<"0", "3", "/", "1", "5", "/", "2", "0", "2", "4">>,
                                       <<"M", "a", "i", "n", " ", "S", "t", "r", "e", "e", "t", " ", "G", "a", "r", "a", "g", "e">>,
                                       <<"$", "1", "2", ".", "5", "0">> >>]))
          [] name = "r2.pdf" ->
               Returns(Some([matches |-> <<Date_2024_03_16, Date_02_30>>,
                             lines |-> << <<"2", "0", "2", "4", "-", "0", "3", "-", "1", "6", " ", "0", "2", "/", "3", "0", "/", "2", "0", "2", "4">>,
                                       <<"L", "o", "t", " ", "#", "7">>,
                                       <<"M", "a", "i", "n", " ", "S", "t", "r", "e", "e", "t", " ", "G", "a", "r", "a", "g", "e">> >>]))
          [] name = "t1.pdf" ->
               Returns(Some([matches |-> <<Date_03_15>>,
                             lines |-> << <<"T", "i", "m", "e", " ", "R", "e", "p", "o", "r", "t">>,
                                       <<"A", "c", "m", "e", " ", "I", "n", "c">>,
                                       <<"0", "3", "/", "1", "5", "/", "2", "0", "2", "4">>,
                                       <<"T", "o", "t", "a", "l", " ", "H", "o", "u", "r", "s", ":", " ", "4", "0">> >>]))
          [] name = "t2.pdf" ->
               Returns(Some([matches |-> <<Date_03_15, Date_03_17>>,
                             lines |-> << <<"B", "e", "t", "a", " ", "L", "L", "C">>,
                                       <<"0", "3", "/", "1", "5", "/", "2", "0", "2", "4">>,
                                       <<"0", "3", "/", "1", "7", "/", "2", "0", "2", "4">> >>]))
          [] name = "scan.pdf" -> Returns(None)
          [] name = "broken.pdf" -> Raises("Exception")]

extract_text_from_pdf(uploaded_file) == Files[uploaded_file]

ReceiptFiles == {"r1.pdf", "r2.pdf", "scan.pdf", "broken.pdf"}
TimeReportFiles == {"t1.pdf", "t2.pdf", "scan.pdf"}

\* the outcomes of extraction followed by parsing, per file (the same for every
\* run: neither function reads anything but its argument)
ParkingOutcomes ==
    [f \in ReceiptFiles |->
        LET x == extract_text_from_pdf(f)
        IN IF x.exc # "none" \/ x.val[1] = None THEN {x}
           ELSE parse_parking_receipts(x.val[1][1])]

TimeReportOutcomes ==
    [f \in TimeReportFiles |->
        LET x == extract_text_from_pdf(f)
        IN IF x.exc # "none" \/ x.val[1] = None THEN {x}
           ELSE parse_time_report(x.val[1][1])]

----------------------------------------------------------------------------
(* main: one run of the script over st.session_state *)

\* lines 243-248, on the first run of a session
InitialSession ==
    [receipt_data |-> None, time_report_data |-> None,
     client_address_mapping |-> <<>>, manual_clients |-> None, matches |-> None]

NoEvent == [type |-> "none"]

\* all_receipt_data with the output of one parsed document appended, and the
\* message st.success shows
Extended(acc, receipt_file, receipt_data) ==
    [dates |-> acc.dates \o receipt_data.dates,
     locations |-> acc.locations \o receipt_data.locations,
     amounts |-> acc.amounts \o receipt_data.amounts,
     messages |-> Append(acc.messages, [file |-> receipt_file, ok |-> TRUE])]

\* all_receipt_data untouched, and the message st.error shows
Failed(acc, receipt_file) ==
    [acc EXCEPT !.messages = Append(@, [file |-> receipt_file, ok |-> FALSE])]

\* the bug of giving up at the first document that fails
RECURSIVE ProcessReceipts_Abort(_, _)
ProcessReceipts_Abort(files, acc) ==
    IF files = <<>> THEN {acc}
    ELSE UNION {IF r.exc # "none" \/ r.val[1] = None
                THEN {Failed(acc, Head(files))}
                ELSE ProcessReceipts_Abort(Tail(files), Extended(acc, Head(files), r.val[1]))
                  : r \in ParkingOutcomes[Head(files)]}

\* for receipt_file in uploaded_receipts: all_receipt_data after the loop, with
\* the st.success / st.error message of each file.  A file fails when
\* extract_text_from_pdf returns None (line 274) or an exception reaches the
\* except clause (line 275).
RECURSIVE ProcessReceipts(_, _)
ProcessReceipts(files, acc) ==
    IF files = <<>> THEN {acc}
    ELSE UNION {IF r.exc # "none" \/ r.val[1] = None
                THEN ProcessReceipts(Tail(files), Failed(acc, Head(files)))
                ELSE ProcessReceipts(Tail(files), Extended(acc, Head(files), r.val[1]))
                  : r \in ParkingOutcomes[Head(files)]}

\* all_receipt_data before the loop, line 262
EmptyReceiptData == [dates |-> <<>>, locations |-> <<>>, amounts |-> <<>>, messages |-> <<>>]

\* Section 1: the outcomes [ss, messages] of lines 260-282
Section1(ss, files) ==
    IF files = <<>> THEN {[ss |-> ss, messages |-> <<>>]}
    ELSE UNION {{[ss |-> [ss EXCEPT !.receipt_data =
                              Some([dates |-> SortedDates(Range(a.dates)),
                                    locations |-> l,
                                    amounts |-> a.amounts])],
                  messages |-> a.messages]
                   : l \in ListsOfSet(Range(a.locations))}
                  : a \in ProcessReceipts(files, EmptyReceiptData)}

\* Section 2: the outcomes of lines 306-318
Section2(ss, time_report_file) ==
    IF time_report_file = None THEN {ss}
    ELSE {IF r.exc # "none" \/ r.val[1] = None THEN ss
          ELSE [ss EXCEPT !.time_report_data = Some(r.val[1])]
            : r \in TimeReportOutcomes[time_report_file[1]]}

\* Section 3, lines 329-370: the client list is created and the form handled
Section3Form(ss, ev) ==
    IF ss.time_report_data = None THEN ss
    ELSE LET manual_clients ==
                 IF ss.manual_clients = None THEN <<>> ELSE ss.manual_clients[1]
             client_entry == [name |-> Strip(ev.name), address |-> Strip(ev.address)]
         IN IF /\ ev.type = "add"
               /\ Strip(ev.name) # <<>>
               /\ Strip(ev.address) # <<>>
               /\ client_entry.name \notin {manual_clients[i].name : i \in DOMAIN manual_clients}
            THEN [ss EXCEPT !.manual_clients = Some(Append(manual_clients, client_entry))]
            ELSE [ss EXCEPT !.manual_clients = Some(manual_clients)]

\* {client['name']: client['address'] for client in manual_clients}
MappingOf(manual_clients) ==
    [n \in {manual_clients[i].name : i \in DOMAIN manual_clients} |->
        manual_clients[CHOOSE i \in DOMAIN manual_clients :
                          /\ manual_clients[i].name = n
                          /\ \A j \in DOMAIN manual_clients :
                                manual_clients[j].name = n => j <= i].address]

\* Section 3, lines 373-402, no Remove button pressed: the mapping and the
\* client list of the time report follow the manual clients, if there are any
Section3Sync(ss) ==
    IF ss.time_report_data = None \/ ss.manual_clients[1] = <<>> THEN ss
    ELSE [ss EXCEPT
            !.client_address_mapping = MappingOf(ss.manual_clients[1]),
            !.time_report_data =
                Some([@[1] EXCEPT !.clients =
                        [i \in DOMAIN ss.manual_clients[1] |-> ss.manual_clients[1][i].name]])]

\* the condition of Section 4, line 405
MatchingAvailable(ss) ==
    /\ ss.receipt_data # None
    /\ ss.time_report_data # None
    /\ ss.client_address_mapping # <<>>

\* Section 4, lines 405-419
Section4(ss, ev) ==
    IF MatchingAvailable(ss) /\ ev.type = "generate"
    THEN [ss EXCEPT !.matches =
             Some(match_dates_to_clients(ss.receipt_data[1].dates, ss.time_report_data[1],
                                         ss.client_address_mapping))]
    ELSE ss

\* one run of the script from top to bottom
Run(ss, files, time_report_file, ev) ==
    UNION {{[ss |-> Section4(Section3Sync(Section3Form(s2, ev)), ev),
             messages |-> x.messages]
              : s2 \in Section2(x.ss, time_report_file)}
             : x \in Section1(ss, files)}

\* manual_clients.pop(i), i counted from 1
Pop(ss, i) ==
    [ss EXCEPT !.manual_clients =
        Some(SubSeq(@[1], 1, i - 1) \o SubSeq(@[1], i + 1, Len(@[1])))]

\* a run in which the Remove button of row i is pressed: the run reaches line
\* 387, pops the client, and st.rerun() starts the script again
RunRemove(ss, files, time_report_file, i) ==
    UNION {Run(Pop(Section3Form(s2, NoEvent), i), files, time_report_file, NoEvent)
             : s2 \in UNION {Section2(x.ss, time_report_file) : x \in Section1(ss, files)}}

----------------------------------------------------------------------------
(* The pure functions on their own *)

MatchIdle ==
    /\ receipt_dates = <<>>
    /\ time_report_data = [dates |-> <<>>, clients |-> <<>>]
    /\ client_address_mapping = <<>>
    /\ matches = None

DateIdle == date_text = <<>> /\ date_result = None

ParkingIdle == receipt_text = [matches |-> <<>>, lines |-> <<>>] /\ receipt_result = None

ReportIdle == report_text = [matches |-> <<>>, lines |-> <<>>] /\ report_result = None

SessionIdle ==
    /\ session_state = InitialSession
    /\ uploaded_receipts = <<>>
    /\ uploaded_time_report = None
    /\ messages = <<>>
    /\ interactions = 0

MatchInit ==
    /\ receipt_dates \in ReceiptDateLists
    /\ time_report_data \in [dates : WorkDateLists, clients : ClientLists]
    /\ client_address_mapping \in Mappings
    /\ matches = None
    /\ DateIdle /\ ParkingIdle /\ ReportIdle /\ SessionIdle

CallMatch ==
    /\ matches = None
    /\ matches' = Some(match_dates_to_clients(receipt_dates, time_report_data,
                                               client_address_mapping))
    /\ UNCHANGED <<receipt_dates, time_report_data, client_address_mapping>>
    /\ UNCHANGED <<date_vars, parking_vars, report_vars, session_vars>>

MatchNext == CallMatch

SpecMatch == MatchInit /\ [][MatchNext]_vars

DateInit ==
    /\ date_text \in DateTexts
    /\ date_result = None
    /\ MatchIdle /\ ParkingIdle /\ ReportIdle /\ SessionIdle

CallParseDates ==
    /\ date_result = None
    /\ \E r \in parse_dates_from_text(date_text) : date_result' = Some(r)
    /\ UNCHANGED date_text
    /\ UNCHANGED <<match_vars, parking_vars, report_vars, session_vars>>

DateNext == CallParseDates

SpecDates == DateInit /\ [][DateNext]_vars

ParkingInit ==
    /\ receipt_text \in ReceiptTexts
    /\ receipt_result = None
    /\ MatchIdle /\ DateIdle /\ ReportIdle /\ SessionIdle

CallParseParking ==
    /\ receipt_result = None
    /\ \E r \in parse_parking_receipts(receipt_text) : receipt_result' = Some(r)
    /\ UNCHANGED receipt_text
    /\ UNCHANGED <<match_vars, date_vars, report_vars, session_vars>>

ParkingNext == CallParseParking

SpecParking == ParkingInit /\ [][ParkingNext]_vars

ReportInit ==
    /\ report_text \in ReportTexts
    /\ report_result = None
    /\ MatchIdle /\ DateIdle /\ ParkingIdle /\ SessionIdle

CallParseTimeReport ==
    /\ report_result = None
    /\ \E r \in parse_time_report(report_text) : report_result' = Some(r)
    /\ UNCHANGED report_text
    /\ UNCHANGED <<match_vars, date_vars, parking_vars, session_vars>>

ReportNext == CallParseTimeReport

SpecReport == ReportInit /\ [][ReportNext]_vars

----------------------------------------------------------------------------
(* The session: every user interaction reruns the script *)

\* an interaction: the session is followed for MaxSteps of them
Interact == interactions < MaxSteps /\ interactions' = interactions + 1
TimeReportUploads == {None} \cup {Some(f) : f \in TimeReportFiles}

\* what the user types into the form: a name and an address, neither
\* stripped yet, possibly blank
NameInputs == {Acme, <<" ">> \o Beta \o <<" ">>, <<" ">>}
AddressInputs == {Main, Oak \o <<" ">>, <<>>}

SessionInit ==
    /\ session_state = InitialSession
    /\ uploaded_receipts = <<>>
    /\ uploaded_time_report = None
    /\ messages = <<>>
    /\ interactions = 0
    /\ MatchIdle /\ DateIdle /\ ParkingIdle /\ ReportIdle

\* the user adds a file to the receipts uploader, which holds up to MaxDocs
UploadReceipt ==
    /\ Interact
    /\ Len(uploaded_receipts) < MaxDocs
    /\ \E f \in ReceiptFiles \ Range(uploaded_receipts) :
          \E o \in Run(session_state, Append(uploaded_receipts, f),
                       uploaded_time_report, NoEvent) :
              /\ uploaded_receipts' = Append(uploaded_receipts, f)
              /\ session_state' = o.ss
              /\ messages' = o.messages
    /\ UNCHANGED uploaded_time_report
    /\ UNCHANGED <<match_vars, date_vars, parking_vars, report_vars>>

\* the user takes file i out of the receipts uploader
ClearReceipt ==
    /\ Interact
    /\ \E i \in DOMAIN uploaded_receipts :
          LET files == SubSeq(uploaded_receipts, 1, i - 1)
                       \o SubSeq(uploaded_receipts, i + 1, Len(uploaded_receipts))
          IN \E o \in Run(session_state, files, uploaded_time_report, NoEvent) :
                /\ uploaded_receipts' = files
                /\ session_state' = o.ss
                /\ messages' = o.messages
    /\ UNCHANGED uploaded_time_report
    /\ UNCHANGED <<match_vars, date_vars, parking_vars, report_vars>>

\* the user changes or clears the file of the time report uploader
UploadTimeReport ==
    /\ Interact
    /\ \E f \in TimeReportUploads \ {uploaded_time_report} :
        \E o \in Run(session_state, uploaded_receipts, f, NoEvent) :
            /\ uploaded_time_report' = f
            /\ session_state' = o.ss
            /\ messages' = o.messages
            /\ UNCHANGED uploaded_receipts
            /\ UNCHANGED <<match_vars, date_vars, parking_vars, report_vars>>

\* the user submits the form of Section 3, shown once a time report is held
AddClient ==
    /\ Interact
    /\ session_state.time_report_data # None
    /\ \E name \in NameInputs, address \in AddressInputs :
          \E o \in Run(session_state, uploaded_receipts, uploaded_time_report,
                       [type |-> "add", name |-> name, address |-> address]) :
              /\ session_state' = o.ss
              /\ messages' = o.messages
    /\ UNCHANGED <<uploaded_receipts, uploaded_time_report>>
    /\ UNCHANGED <<match_vars, date_vars, parking_vars, report_vars>>

\* the user presses the Remove button of row i
RemoveClient ==
    /\ Interact
    /\ session_state.time_report_data # None
    /\ session_state.manual_clients # None
    /\ \E i \in DOMAIN session_state.manual_clients[1] :
          \E o \in RunRemove(session_state, uploaded_receipts, uploaded_time_report, i) :
              /\ session_state' = o.ss
              /\ messages' = o.messages
    /\ UNCHANGED <<uploaded_receipts, uploaded_time_report>>
    /\ UNCHANGED <<match_vars, date_vars, parking_vars, report_vars>>

\* the user presses Generate Matches, shown while Section 4 is
GenerateMatches ==
    /\ Interact
    /\ MatchingAvailable(session_state)
    /\ \E o \in Run(session_state, uploaded_receipts, uploaded_time_report,
                    [type |-> "generate"]) :
          /\ session_state' = o.ss
          /\ messages' = o.messages
    /\ UNCHANGED <<uploaded_receipts, uploaded_time_report>>
    /\ UNCHANGED <<match_vars, date_vars, parking_vars, report_vars>>

SessionNext ==
    \/ UploadReceipt
    \/ ClearReceipt
    \/ UploadTimeReport
    \/ AddClient
    \/ RemoveClient
    \/ GenerateMatches

SpecSession == SessionInit /\ [][SessionNext]_vars

----------------------------------------------------------------------------
(* Properties of match_dates_to_clients *)

Called == matches # None
Out == matches[1]

WorkDates == Range(time_report_data.dates)

\* the listed clients that have an address, in client-list order
KnownClients ==
    SelectSeq(time_report_data.clients, LAMBDA c : c \in DOMAIN client_address_mapping)

\* the records of the output that carry date d, in output order
RecordsOf(d) == SelectSeq(Out, LAMBDA r : r.date = d)

NearWork(d) == \E w \in WorkDates : Abs(DaysBetween(d, w)) <= 1

ExpectedRecords(d, tag) ==
    [i \in 1..Len(KnownClients) |->
        [date |-> d, client |-> KnownClients[i],
         address |-> client_address_mapping[KnownClients[i]], match_type |-> tag]]

\* C1: for every receipt date that is a work-report date, the output holds
\* exactly one record per listed client with an address, in client-list order,
\* with that date, that client's address and match_type "exact".
C1_ExactPass ==
    Called =>
        \A d \in Range(receipt_dates) :
            d \in WorkDates => RecordsOf(d) = ExpectedRecords(d, "exact")

\* an exact match with two listed clients that both have an address
C1_Witness ==
    /\ Called
    /\ Len(KnownClients) = 2
    /\ \E d \in Range(receipt_dates) : d \in WorkDates /\ Len(RecordsOf(d)) = 2

\* C2: a receipt date that matches, exactly or within one day, gets exactly N
\* records, N the number of listed clients with an address, one per client,
\* whatever the set of work-report dates.
C2_NRecordsPerDate ==
    Called =>
        \A d \in Range(receipt_dates) :
            NearWork(d) =>
                /\ Len(RecordsOf(d)) = Len(KnownClients)
                /\ \A i \in 1..Len(KnownClients) : RecordsOf(d)[i].client = KnownClients[i]

\* C3: a record is tagged "exact" when its date is a work-report date and
\* "±1 day(s)" otherwise; no date has records of both kinds; "±0 day(s)" never
\* appears.
C3_ToleranceOnlyWithoutExact ==
    Called =>
        /\ \A i \in 1..Len(Out) :
              Out[i].match_type =
                  IF Out[i].date \in WorkDates THEN "exact" ELSE "±1 day(s)"
        /\ \A i, j \in 1..Len(Out) :
              Out[i].date = Out[j].date => Out[i].match_type = Out[j].match_type
        /\ \A i \in 1..Len(Out) : Out[i].match_type # "±0 day(s)"

\* one receipt date matched exactly and another one by tolerance
C3_Witness ==
    /\ Called
    /\ \E i, j \in 1..Len(Out) :
          /\ Out[i].match_type = "exact"
          /\ Out[j].match_type = "±1 day(s)"

\* C4: a receipt date with no work-report date within one day has no record,
\* and every date of the output is one of the receipt dates.
C4_UnmatchedDropped ==
    Called =>
        /\ \A d \in Range(receipt_dates) : ~NearWork(d) => RecordsOf(d) = <<>>
        /\ \A i \in 1..Len(Out) : Out[i].date \in Range(receipt_dates)

\* a receipt date two days from the only work date is dropped while another
\* receipt date of the same call is matched
C4_Witness ==
    /\ Called
    /\ KnownClients # <<>>
    /\ WorkDates # {}
    /\ Out # <<>>
    /\ \E d \in Range(receipt_dates) : ~NearWork(d) /\ RecordsOf(d) = <<>>

\* C5: every record names a listed client that is a key of the mapping, with
\* that key's address; with no such client the output is empty.
C5_OnlyKnownClients ==
    Called =>
        /\ \A i \in 1..Len(Out) :
              /\ Out[i].client \in Range(time_report_data.clients)
              /\ Out[i].client \in DOMAIN client_address_mapping
              /\ Out[i].address = client_address_mapping[Out[i].client]
        /\ KnownClients = <<>> => Out = <<>>

\* a listed client without an address is skipped while another one is emitted
C5_Witness ==
    /\ Called
    /\ Out # <<>>
    /\ \E c \in Range(time_report_data.clients) : c \notin DOMAIN client_address_mapping

\* no listed client has an address, a receipt date is a work date: no output
C5_EmptyCase ==
    /\ Called
    /\ time_report_data.clients # <<>>
    /\ client_address_mapping # <<>>
    /\ KnownClients = <<>>
    /\ \E d \in Range(receipt_dates) : d \in WorkDates
    /\ Out = <<>>

----------------------------------------------------------------------------
(* Properties of parse_dates_from_text *)

GregorianLeap(y) == (y % 4 = 0 /\ y % 100 # 0) \/ y % 400 = 0

GregorianMonthLength(y, m) ==
    CASE m \in {1, 3, 5, 7, 8, 10, 12} -> 31
      [] m \in {4, 6, 9, 11} -> 30
      [] m = 2 -> IF GregorianLeap(y) THEN 29 ELSE 28

ValidGregorian(ymd) ==
    /\ ymd.year >= 1
    /\ ymd.month \in 1..12
    /\ ymd.day >= 1
    /\ ymd.day <= GregorianMonthLength(ymd.year, ymd.month)

\* the year, month and day a date-shaped candidate spells: a/b/yyyy is month a,
\* day b; yyyy/m/d; d Month yyyy; Month d, yyyy
Reading(c) ==
    LET g == c.groups
    IN CASE c.pattern = 1 ->
              [year |-> ToInt(g[3]), month |-> ToInt(g[1]), day |-> ToInt(g[2])]
         [] c.pattern = 2 ->
              [year |-> ToInt(g[1]), month |-> ToInt(g[2]), day |-> ToInt(g[3])]
         [] c.pattern = 3 ->
              [year |-> ToInt(g[3]), month |-> MonthNumber(Lower(g[2])), day |-> ToInt(g[1])]
         [] c.pattern = 4 ->
              [year |-> ToInt(g[3]), month |-> MonthNumber(Lower(g[1])), day |-> ToInt(g[2])]

NoDuplicates(l) == \A i, j \in DOMAIN l : l[i] = l[j] => i = j

\* C6: parse_dates_from_text raises nothing and returns a duplicate-free list
\* that holds a date exactly when a candidate of the text spells a valid
\* Gregorian date, read as month/day/year, year/month/day or with a month name.
C6_ValidDatesOnly ==
    date_result # None =>
        /\ date_result[1].exc = "none"
        /\ NoDuplicates(date_result[1].val[1])
        /\ Range(date_result[1].val[1]) =
              {Reading(c) : c \in {x \in Range(date_text) : ValidGregorian(Reading(x))}}

\* a text with a valid candidate and a numeric candidate whose day is past the
\* end of its month (such as 02/30/2024): one date comes back
C6_Witness ==
    /\ date_result # None
    /\ \E i, j \in DOMAIN date_text :
          /\ ValidGregorian(Reading(date_text[i]))
          /\ date_text[j].pattern = 1
          /\ Reading(date_text[j]).month \in 1..12
          /\ Reading(date_text[j]).day \in 29..31
          /\ ~ValidGregorian(Reading(date_text[j]))
    /\ Len(date_result[1].val[1]) = 1

----------------------------------------------------------------------------
(* Properties of parse_parking_receipts *)

\* a qualifying location line: a keyword present, cleaned length at least 4
Qualifies(line) == HasKeyword(line) /\ Len(CleanLine(line)) >= 4

QualifyingIndexes ==
    {i \in DOMAIN receipt_text.lines : Qualifies(receipt_text.lines[i])}

\* the index of the j-th member of the set Q of line indexes
NthOf(Q, j) == CHOOSE i \in Q : Cardinality({k \in Q : k <= i}) = j

\* C10: the locations returned are the cleaned forms of the first min(k, 10)
\* qualifying lines, in document order; 30 distinct qualifying lines give 10.
C10_LocationCap ==
    receipt_result # None =>
        LET locations == receipt_result[1].val[1].locations
            Q == QualifyingIndexes
            k == Cardinality(Q)
        IN /\ Len(locations) = Min(k, 10)
           /\ \A j \in 1..Min(k, 10) :
                 locations[j] = CleanLine(receipt_text.lines[NthOf(Q, j)])
           /\ (k = 30 /\ Cardinality(Range(receipt_text.lines)) = 30)
                 => Len(locations) = 10

\* thirty distinct qualifying lines were parsed
C10_Witness ==
    /\ receipt_result # None
    /\ Len(receipt_text.lines) = 30
    /\ Cardinality(QualifyingIndexes) = 30
    /\ Cardinality(Range(receipt_text.lines)) = 30
    /\ Len(receipt_result[1].val[1].locations) = 10

----------------------------------------------------------------------------
(* Properties of the session *)

\* the document is processed successfully: text is extracted and no exception
\* is raised
Succeeds(f) == Files[f].exc = "none" /\ Files[f].val[1] # None

\* the dates a document holds: the valid dates its text spells
DatesOfFile(f) ==
    {Reading(c) : c \in {x \in Range(Files[f].val[1][1].matches) : ValidGregorian(Reading(x))}}

\* C7: whatever documents of the upload fail, every document is processed and
\* the stored dates are the sorted, duplicate-free union of the dates of the
\* documents that succeeded.
C7_PartialFailureIsolation ==
    uploaded_receipts # <<>> =>
        /\ Len(messages) = Len(uploaded_receipts)
        /\ \A i \in DOMAIN uploaded_receipts :
              /\ messages[i].file = uploaded_receipts[i]
              /\ messages[i].ok = Succeeds(uploaded_receipts[i])
        /\ session_state.receipt_data # None
        /\ LET stored == session_state.receipt_data[1].dates
           IN /\ Range(stored) =
                    UNION {DatesOfFile(uploaded_receipts[i]) :
                              i \in {j \in DOMAIN uploaded_receipts :
                                        Succeeds(uploaded_receipts[j])}}
              /\ \A i, j \in DOMAIN stored : i < j => Ordinal(stored[i]) < Ordinal(stored[j])

\* a document that fails is followed by one that succeeds, whose dates are stored
C7_Witness ==
    /\ Len(uploaded_receipts) = 2
    /\ ~Succeeds(uploaded_receipts[1])
    /\ Succeeds(uploaded_receipts[2])
    /\ session_state.receipt_data # None
    /\ session_state.receipt_data[1].dates # <<>>
    /\ messages = <<[file |-> uploaded_receipts[1], ok |-> FALSE],
                    [file |-> uploaded_receipts[2], ok |-> TRUE]>>

\* C8: the match records the session holds equal match_dates_to_clients of the
\* current receipt dates, time report data and client-address mapping.
C8_MatchesDerived ==
    session_state.matches # None =>
        /\ session_state.receipt_data # None
        /\ session_state.time_report_data # None
        /\ session_state.matches[1] =
              match_dates_to_clients(session_state.receipt_data[1].dates,
                                     session_state.time_report_data[1],
                                     session_state.client_address_mapping)

\* the locations of the successful documents of the upload, in document order,
\* each kept at its first occurrence
RECURSIVE FirstOccurrences(_, _)
FirstOccurrences(l, seen) ==
    IF l = <<>> THEN <<>>
    ELSE IF Head(l) \in seen THEN FirstOccurrences(Tail(l), seen)
    ELSE <<Head(l)>> \o FirstOccurrences(Tail(l), seen \cup {Head(l)})

RECURSIVE LocationsInOrder(_)
LocationsInOrder(files) ==
    IF files = <<>> THEN <<>>
    ELSE (IF Succeeds(Head(files))
          THEN Take(ScanLocations(Files[Head(files)].val[1][1].lines), 10)
          ELSE <<>>)
         \o LocationsInOrder(Tail(files))

\* C9: the aggregated receipt record holds at most 10 locations and at most 10
\* amounts, and its locations keep document order.
C9_AggregateCapped ==
    session_state.receipt_data # None =>
        /\ Len(session_state.receipt_data[1].locations) <= 10
        /\ Len(session_state.receipt_data[1].amounts) <= 10
        /\ uploaded_receipts # <<>> =>
              session_state.receipt_data[1].locations =
                  FirstOccurrences(LocationsInOrder(uploaded_receipts), {})

\* the two parts of C9 taken apart
C9_AmountsCapped ==
    session_state.receipt_data # None => Len(session_state.receipt_data[1].amounts) <= 10

C9_LocationsInOrder ==
    (session_state.receipt_data # None /\ uploaded_receipts # <<>>) =>
        session_state.receipt_data[1].locations =
            FirstOccurrences(LocationsInOrder(uploaded_receipts), {})

----------------------------------------------------------------------------
(* Properties of parse_time_report *)

\* the candidate name line i of the text gives, and whether it is accepted:
\* the line is not skipped, a word is kept, and the name has 3 to 50 characters
Candidate(i) == Join(KeptWords(Strip(report_text.lines[i])))

Accepted(i) ==
    LET line == Strip(report_text.lines[i])
    IN /\ ~(Len(line) < 3 \/ IsDigitStr(line) \/ StartsDateLike(line) \/ HasDollarAmount(line))
       /\ KeptWords(line) # <<>>
       /\ Len(Candidate(i)) >= 3
       /\ Len(Candidate(i)) <= 50

AcceptedNames == {Candidate(i) : i \in {j \in DOMAIN report_text.lines : Accepted(j)}}

ReportReturned == report_result # None /\ report_result[1].exc = "none"

\* C11: the clients parse_time_report returns are strictly ascending (so
\* duplicate-free and sorted), at most 10, and exactly the accepted candidate
\* names that have fewer than 10 accepted names sorting before them.
C11_FirstTenSorted ==
    ReportReturned =>
        LET clients == report_result[1].val[1].clients
            A == AcceptedNames
        IN /\ \A i, j \in DOMAIN clients : i < j => StrLess(clients[i], clients[j])
           /\ Len(clients) <= 10
           /\ Range(clients) = {a \in A : Cardinality({b \in A : StrLess(b, a)}) < 10}

\* more than 10 names are accepted, and one first accepted after 10 others is
\* returned while one accepted on an earlier line is not
C11_Witness ==
    /\ ReportReturned
    /\ LET clients == report_result[1].val[1].clients
           A == AcceptedNames
           Before(j) == {Candidate(i) : i \in {k \in 1..(j - 1) : Accepted(k)}}
       IN /\ Cardinality(A) > 10
          /\ Len(clients) = 10
          /\ \E j \in DOMAIN report_text.lines :
                /\ Accepted(j)
                /\ Candidate(j) \notin Before(j)
                /\ Cardinality(Before(j)) >= 10
                /\ Candidate(j) \in Range(clients)
                /\ \E a \in Before(j) : a \notin Range(clients)

----------------------------------------------------------------------------
(* Properties of the client list of the session *)

\* C12: after the page has re-rendered, the keys of client_address_mapping are
\* exactly the names of the manual client list, each mapped to its address;
\* with no client left the mapping is empty and Section 4 is not available.
C12_MappingFollowsClients ==
    session_state.manual_clients # None =>
        LET manual_clients == session_state.manual_clients[1]
            mapping == session_state.client_address_mapping
        IN /\ DOMAIN mapping = {manual_clients[i].name : i \in DOMAIN manual_clients}
           /\ \A i \in DOMAIN manual_clients :
                 mapping[manual_clients[i].name] = manual_clients[i].address
           /\ manual_clients = <<>> =>
                 (mapping = <<>> /\ ~MatchingAvailable(session_state))

====
